---- MODULE Spec2Model ----
(***************************************************************************)
(* A model of scripts/makecrates.py: the generator that groups the device *)
(* description files of a directory by family prefix and writes, for each  *)
(* family, Cargo.toml, README.md, src/lib.rs and build.rs.                  *)
(*                                                                         *)
(* A Python str is a sequence of one-character strings, so that slicing,   *)
(* lower(), upper(), join() and the ordering sorted() uses are computed    *)
(* as the code computes them.                                              *)
(***************************************************************************)
EXTENDS Naturals, Sequences, FiniteSets, TLC

(***************************************************************************)
(* Bounds of the model.                                                    *)
(***************************************************************************)
\* The largest number of entries the input directory holds.
MaxFiles == 3

(***************************************************************************)
(* Characters and strings.                                                 *)
(***************************************************************************)
\* The line feed.
NL == "\n"

\* ord(c): the code point of a character, for the line feed and the printable
\* ASCII characters (the grave accent, 96, occurs in no name or template
\* argument).
Ord ==
  (NL :> 10) @@ (" " :> 32) @@ ("!" :> 33) @@ ("\"" :> 34) @@ ("#" :> 35) @@
    ("$" :> 36) @@ ("%" :> 37) @@ ("&" :> 38) @@ ("'" :> 39) @@ ("(" :> 40) @@
    (")" :> 41) @@ ("*" :> 42) @@ ("+" :> 43) @@ ("," :> 44) @@ ("-" :> 45) @@
    ("." :> 46) @@ ("/" :> 47) @@ ("0" :> 48) @@ ("1" :> 49) @@ ("2" :> 50) @@
    ("3" :> 51) @@ ("4" :> 52) @@ ("5" :> 53) @@ ("6" :> 54) @@ ("7" :> 55) @@
    ("8" :> 56) @@ ("9" :> 57) @@ (":" :> 58) @@ (";" :> 59) @@ ("<" :> 60) @@
    ("=" :> 61) @@ (">" :> 62) @@ ("?" :> 63) @@ ("@" :> 64) @@ ("A" :> 65) @@
    ("B" :> 66) @@ ("C" :> 67) @@ ("D" :> 68) @@ ("E" :> 69) @@ ("F" :> 70) @@
    ("G" :> 71) @@ ("H" :> 72) @@ ("I" :> 73) @@ ("J" :> 74) @@ ("K" :> 75) @@
    ("L" :> 76) @@ ("M" :> 77) @@ ("N" :> 78) @@ ("O" :> 79) @@ ("P" :> 80) @@
    ("Q" :> 81) @@ ("R" :> 82) @@ ("S" :> 83) @@ ("T" :> 84) @@ ("U" :> 85) @@
    ("V" :> 86) @@ ("W" :> 87) @@ ("X" :> 88) @@ ("Y" :> 89) @@ ("Z" :> 90) @@
    ("[" :> 91) @@ ("\\" :> 92) @@ ("]" :> 93) @@ ("^" :> 94) @@
    ("_" :> 95) @@ ("a" :> 97) @@ ("b" :> 98) @@ ("c" :> 99) @@
    ("d" :> 100) @@ ("e" :> 101) @@ ("f" :> 102) @@ ("g" :> 103) @@
    ("h" :> 104) @@ ("i" :> 105) @@ ("j" :> 106) @@ ("k" :> 107) @@
    ("l" :> 108) @@ ("m" :> 109) @@ ("n" :> 110) @@ ("o" :> 111) @@
    ("p" :> 112) @@ ("q" :> 113) @@ ("r" :> 114) @@ ("s" :> 115) @@
    ("t" :> 116) @@ ("u" :> 117) @@ ("v" :> 118) @@ ("w" :> 119) @@
    ("x" :> 120) @@ ("y" :> 121) @@ ("z" :> 122) @@ ("{" :> 123) @@
    ("|" :> 124) @@ ("}" :> 125) @@ ("~" :> 126)

\* str.lower() and str.upper() map the ASCII letters and keep every other
\* character.
ToLower ==
  ("A" :> "a") @@ ("B" :> "b") @@ ("C" :> "c") @@ ("D" :> "d") @@
    ("E" :> "e") @@ ("F" :> "f") @@ ("G" :> "g") @@ ("H" :> "h") @@
    ("I" :> "i") @@ ("J" :> "j") @@ ("K" :> "k") @@ ("L" :> "l") @@
    ("M" :> "m") @@ ("N" :> "n") @@ ("O" :> "o") @@ ("P" :> "p") @@
    ("Q" :> "q") @@ ("R" :> "r") @@ ("S" :> "s") @@ ("T" :> "t") @@
    ("U" :> "u") @@ ("V" :> "v") @@ ("W" :> "w") @@ ("X" :> "x") @@
    ("Y" :> "y") @@ ("Z" :> "z")

\* The letters str.upper() maps.
ToUpper ==
  ("a" :> "A") @@ ("b" :> "B") @@ ("c" :> "C") @@ ("d" :> "D") @@
    ("e" :> "E") @@ ("f" :> "F") @@ ("g" :> "G") @@ ("h" :> "H") @@
    ("i" :> "I") @@ ("j" :> "J") @@ ("k" :> "K") @@ ("l" :> "L") @@
    ("m" :> "M") @@ ("n" :> "N") @@ ("o" :> "O") @@ ("p" :> "P") @@
    ("q" :> "Q") @@ ("r" :> "R") @@ ("s" :> "S") @@ ("t" :> "T") @@
    ("u" :> "U") @@ ("v" :> "V") @@ ("w" :> "W") @@ ("x" :> "X") @@
    ("y" :> "Y") @@ ("z" :> "Z")

LowerChar(c) == IF c \in DOMAIN ToLower THEN ToLower[c] ELSE c

UpperChar(c) == IF c \in DOMAIN ToUpper THEN ToUpper[c] ELSE c

lower(s) == [i \in 1..Len(s) |-> LowerChar(s[i])]

upper(s) == [i \in 1..Len(s) |-> UpperChar(s[i])]

\* s[:n]
Prefix(s, n) == SubSeq(s, 1, IF Len(s) < n THEN Len(s) ELSE n)

\* s[n:] counted from 1: the characters from position n on.
From(s, n) == SubSeq(s, n, Len(s))

\* s.endswith(t) and s.startswith(t)
EndsWith(s, t) ==
  Len(s) >= Len(t) /\ SubSeq(s, Len(s) - Len(t) + 1, Len(s)) = t

StartsWith(s, t) == Len(s) >= Len(t) /\ SubSeq(s, 1, Len(t)) = t

\* a < b on Python strings: lexicographic by code point, a proper prefix first.
RECURSIVE StrLess(_, _)
StrLess(a, b) ==
  IF b = << >> THEN FALSE
  ELSE IF a = << >> THEN TRUE
  ELSE IF Head(a) = Head(b) THEN StrLess(Tail(a), Tail(b))
  ELSE Ord[Head(a)] < Ord[Head(b)]

\* sorted(xs) on a list of strings: a stable insertion into ascending order,
\* equal strings kept as often as they occur.
RECURSIVE InsertSorted(_, _)
InsertSorted(x, xs) ==
  IF xs = << >> THEN << x >>
  ELSE IF StrLess(x, Head(xs)) THEN << x >> \o xs
  ELSE << Head(xs) >> \o InsertSorted(x, Tail(xs))

\* The list as it is, in place of sorted(xs).
unsorted(xs) == xs

RECURSIVE sorted(_)
sorted(xs) ==
  IF xs = << >> THEN << >>
  ELSE InsertSorted(xs[Len(xs)], sorted(SubSeq(xs, 1, Len(xs) - 1)))

\* sep.join(parts)
RECURSIVE join(_, _)
join(sep, parts) ==
  IF parts = << >> THEN << >>
  ELSE IF Len(parts) = 1 THEN parts[1]
  ELSE parts[1] \o sep \o join(sep, Tail(parts))

(***************************************************************************)
(* The program's constants.                                                *)
(***************************************************************************)
VERSION == "0.9.0"

SVD2RUST_VERSION == "0.16.1"

\* The length of the family prefix: family = yamlfile[:7].
FamilyLen == 7

\* 'stm32', the start of every key of CRATE_DOC_FEATURES
Stm32 == << "s", "t", "m", "3", "2" >>

\* CRATE_DOC_FEATURES, in the order the keys are written: the crate name and the
\* features docs.rs builds it with.
CRATE_DOC_FEATURES ==
  << [key |-> Stm32 \o << "f", "0" >>,
      val |-> << "rt", "stm32f0x0", "stm32f0x1", "stm32f0x2", "stm32f0x8" >>],
     [key |-> Stm32 \o << "f", "1" >>,
      val |-> << "rt", "stm32f100", "stm32f101", "stm32f102", "stm32f103",
                      "stm32f107" >>],
     [key |-> Stm32 \o << "f", "2" >>,
      val |-> << "rt", "stm32f215", "stm32f217" >>],
     [key |-> Stm32 \o << "f", "3" >>,
      val |-> << "rt", "stm32f303", "stm32f373", "stm32f3x8" >>],
     [key |-> Stm32 \o << "f", "4" >>,
      val |-> << "rt", "stm32f401", "stm32f407", "stm32f413", "stm32f469" >>],
     [key |-> Stm32 \o << "f", "7" >>,
      val |-> << "rt", "stm32f7x3", "stm32f7x9" >>],
     [key |-> Stm32 \o << "h", "7" >>,
      val |-> << "rt", "stm32h743", "stm32h743v", "stm32h747cm7" >>],
     [key |-> Stm32 \o << "l", "0" >>,
      val |-> << "rt", "stm32l0x1", "stm32l0x2", "stm32l0x3" >>],
     [key |-> Stm32 \o << "l", "1" >>,
      val |-> << "rt", "stm32l100", "stm32l151", "stm32l162" >>],
     [key |-> Stm32 \o << "l", "4" >>,
      val |-> << "rt", "stm32l4x1", "stm32l4x5" >>],
     [key |-> Stm32 \o << "g", "0" >>,
      val |-> << "rt", "stm32g07x", "stm32g030", "stm32g031", "stm32g041",
                      "stm32g081" >>],
     [key |-> Stm32 \o << "g", "4" >>,
      val |-> << "rt", "stm32g431", "stm32g441", "stm32g474", "stm32g484" >>] >>

\* The pieces of text the formatting helpers put around their arguments.
\* the extension of the glob pattern '*.yaml'
YamlExt == << ".", "y", "a", "m", "l" >>

Dot == << "." >>

\* os.sep
Slash == << "/" >>

\* make_features: '{} = []'
FeatureTail == << " ", "=", " ", "[", "]" >>

\* make_device_rows: '| {} | {} | {} |'
RowOpen == << "|", " " >>

RowSep == << " ", "|", " " >>

RowClose == << " ", "|" >>

CommaSpace == << ",", " " >>

\* make_device_rows: '[{}]({}), [st.com]({})'
LinkOpen == << "[" >>

LinkMid == << "]", "(" >>

LinkVendor == << ")", ",", " ", "[", "s", "t", ".", "c", "o", "m", "]", "(" >>

LinkClose == << ")" >>

\* make_device_clauses: 'CARGO_FEATURE_{}'
FlagHead ==
  << "C", "A", "R", "G", "O", "_", "F", "E", "A", "T", "U", "R", "E", "_" >>

\* make_device_clauses: 'src/{}/device.x'
PathHead == << "s", "r", "c", "/" >>

PathTail == << "/", "d", "e", "v", "i", "c", "e", ".", "x" >>

\* the nested source directory
SrcDir == << "s", "r", "c" >>

(***************************************************************************)
(* Mappings.  A Python dict keeps its keys in insertion order: it is a     *)
(* sequence of [key, val] records with no key twice.                       *)
(***************************************************************************)
Keys(d) == {d[i].key : i \in 1..Len(d)}

\* d[k] for a key of d.
Get(d, k) == d[CHOOSE i \in 1..Len(d) : d[i].key = k].val

\* d[k] = v
Put(d, k, v) ==
  IF k \in Keys(d)
    THEN [i \in 1..Len(d) |-> IF d[i].key = k THEN [key |-> k, val |-> v] ELSE d[i]]
    ELSE Append(d, [key |-> k, val |-> v])

(***************************************************************************)
(* Paths and the directory listing.                                        *)
(***************************************************************************)
\* s.rfind(c), counted from 1, and 0 when c does not occur.
RFind(s, c) ==
  IF \E i \in 1..Len(s) : s[i] = c
    THEN CHOOSE i \in 1..Len(s) : s[i] = c /\ \A j \in (i + 1)..Len(s) : s[j] # c
    ELSE 0

\* os.path.join(a, b) for a relative b.
pathjoin(a, b) ==
  IF a = << >> \/ EndsWith(a, Slash) THEN a \o b ELSE a \o Slash \o b

\* os.path.basename(p)
basename(p) == From(p, RFind(p, "/") + 1)

\* os.path.splitext(p)[0]: p up to its last dot, unless only dots precede
\* that dot in the file name.
splitext0(p) ==
  LET sepIndex == RFind(p, "/")
      dotIndex == RFind(p, ".")
  IN IF dotIndex > sepIndex
          /\ \E i \in (sepIndex + 1)..(dotIndex - 1) : p[i] # "."
       THEN SubSeq(p, 1, dotIndex - 1)
       ELSE p

\* The pattern "*" in place of "*.yaml": every entry that is not hidden.
MatchesAny(name) == ~StartsWith(name, Dot)

\* fnmatch of a directory entry against "*.yaml", as glob applies it: the
\* pattern does not start with a dot, so hidden entries are left out.
MatchesYaml(name) == EndsWith(name, YamlExt) /\ ~StartsWith(name, Dot)

\* glob.glob(os.path.join(dir, "*.yaml")) on a directory whose entries are
\* enumerated in the order `entries`: the matching entries in that order, each
\* joined to the directory.
RECURSIVE glob(_, _)
glob(dir, entries) ==
  IF entries = << >> THEN << >>
  ELSE (IF MatchesYaml(Head(entries)) THEN << pathjoin(dir, Head(entries)) >>
        ELSE << >>) \o glob(dir, Tail(entries))

(***************************************************************************)
(* The formatting helpers.                                                 *)
(***************************************************************************)
\* make_device_clauses: the text of one clause around the two arguments
ClauseHead ==
  << "i", "f", " ", "e", "n", "v", ":", ":", "v", "a", "r", "_", "o", "s",
     "(", "\"", "C", "A", "R", "G", "O", "_", "F", "E", "A", "T", "U", "R",
     "E", "_" >>

ClauseMid ==
  << "\"", ")", ".", "i", "s", "_", "s", "o", "m", "e", "(", ")", " ", "{",
     NL, " ", " ", " ", " ", " ", " ", " ", " ", " ", " ", " ", " ", "\"",
     "s", "r", "c", "/" >>

ClauseTail ==
  << "/", "d", "e", "v", "i", "c", "e", ".", "x", "\"", NL, " ", " ", " ",
     " ", " ", " ", " ", " ", "}" >>

\* make_device_clauses: the separator of the clauses
ElseSep == << " ", "e", "l", "s", "e", " " >>

\* make_device_clauses: the text that closes the chain
Fallback ==
  << " ", "e", "l", "s", "e", " ", "{", " ", "p", "a", "n", "i", "c", "!",
     "(", "\"", "N", "o", " ", "d", "e", "v", "i", "c", "e", " ", "f", "e",
     "a", "t", "u", "r", "e", "s", " ", "s", "e", "l", "e", "c", "t", "e",
     "d", "\"", ")", ";", " ", "}" >>

\* make_mods: the text of one module declaration around the device
ModHead ==
  << "#", "[", "c", "f", "g", "(", "f", "e", "a", "t", "u", "r", "e", " ",
     "=", " ", "\"" >>

ModMid == << "\"", ")", "]", NL, "p", "u", "b", " ", "m", "o", "d", " " >>

ModTail == << ";", NL >>

\* sys.argv[1], as the usage line gives it
ArgDir == << "d", "e", "v", "i", "c", "e", "s", "/" >>

\* the four files of a crate, in the order main() writes them
CargoTomlName == << "C", "a", "r", "g", "o", ".", "t", "o", "m", "l" >>

ReadmeName == << "R", "E", "A", "D", "M", "E", ".", "m", "d" >>

LibRsName == << "l", "i", "b", ".", "r", "s" >>

BuildRsName == << "b", "u", "i", "l", "d", ".", "r", "s" >>

\* make_device_rows(table, family), for a family that is a key of the table:
\* one row per device of table[family], the rows sorted and joined by lines.
FormatRow(device, dt) ==
  RowOpen \o device \o RowSep \o join(CommaSpace, dt.members) \o RowSep
    \o LinkOpen \o dt.rm \o LinkMid \o dt.rm_url \o LinkVendor \o dt.url
    \o LinkClose \o RowClose

\* The rows joined in the order of the table, without sorted().
make_device_rows_unsorted(table, family) ==
  LET items == Get(table, family)
      rows == [i \in 1..Len(items) |-> FormatRow(items[i].key, items[i].val)]
  IN join(<< NL >>, rows)

make_device_rows(table, family) ==
  LET items == Get(table, family)
      rows == [i \in 1..Len(items) |-> FormatRow(items[i].key, items[i].val)]
  IN join(<< NL >>, sorted(rows))

\* make_features(devices)
make_features(devices) ==
  LET ds == sorted(devices)
  IN join(<< NL >>, [i \in 1..Len(ds) |-> ds[i] \o FeatureTail])

\* make_mods(devices)
make_mods(devices) ==
  LET ds == sorted(devices)
  IN join(<< NL >>,
          [i \in 1..Len(ds) |-> ModHead \o ds[i] \o ModMid \o ds[i] \o ModTail])

\* make_device_clauses(devices)
make_device_clauses(devices) ==
  LET ds == sorted(devices)
  IN join(ElseSep,
          [i \in 1..Len(ds) |->
             ClauseHead \o upper(ds[i]) \o ClauseMid \o ds[i] \o ClauseTail])
       \o Fallback

(***************************************************************************)
(* The inputs the model draws from: the entries a devices directory may    *)
(* hold and the contents stm32_part_table.yaml may have.                   *)
(***************************************************************************)
\* 'stm32f0x0.yaml'
EntryF0x0 ==
  << "s", "t", "m", "3", "2", "f", "0", "x", "0", ".", "y", "a", "m", "l" >>

\* 'stm32f0X0.yaml'
EntryF0X0 ==
  << "s", "t", "m", "3", "2", "f", "0", "X", "0", ".", "y", "a", "m", "l" >>

\* 'stm32f0x1.yaml'
EntryF0x1 ==
  << "s", "t", "m", "3", "2", "f", "0", "x", "1", ".", "y", "a", "m", "l" >>

\* 'STM32F0x1.yaml'
EntryUpperF0x1 ==
  << "S", "T", "M", "3", "2", "F", "0", "x", "1", ".", "y", "a", "m", "l" >>

\* 'stm32f103.yaml'
EntryF103 ==
  << "s", "t", "m", "3", "2", "f", "1", "0", "3", ".", "y", "a", "m", "l" >>

\* 'stm32wb55.yaml'
EntryWb55 ==
  << "s", "t", "m", "3", "2", "w", "b", "5", "5", ".", "y", "a", "m", "l" >>

\* 'stm32f0x0.svd'
EntrySvd ==
  << "s", "t", "m", "3", "2", "f", "0", "x", "0", ".", "s", "v", "d" >>

\* The entries a directory is drawn from: two files of one family whose stems
\* differ in letter case only, a second device of that family, a file whose
\* family prefix is in upper case, a second family, a family
\* CRATE_DOC_FEATURES has no key for, and a file the pattern does not match.
DirUniverse ==
  { EntryF0x0, EntryF0X0, EntryF0x1, EntryUpperF0x1, EntryF103, EntryWb55,
    EntrySvd }

\* The orders a directory of at most MaxFiles entries can be enumerated in.
Listings ==
  UNION {{s \in [1..n -> DirUniverse] : \A i, j \in 1..n : i # j => s[i] # s[j]}
           : n \in 0..MaxFiles}

Range(s) == {s[i] : i \in 1..Len(s)}

\* The orders the entries of one listing can come in.
Reorderings(s) ==
  {[k \in 1..Len(s) |-> s[p[k]]] : p \in Permutations(1..Len(s))}

\* table key 'stm32f0'
FamF0 == << "s", "t", "m", "3", "2", "f", "0" >>

\* table key 'STM32F0'
FamUpperF0 == << "S", "T", "M", "3", "2", "F", "0" >>

\* table key 'stm32f1'
FamF1 == << "s", "t", "m", "3", "2", "f", "1" >>

\* table key 'stm32wb'
FamWb == << "s", "t", "m", "3", "2", "w", "b" >>

\* table key 'stm32f0x0'
DevF0x0 == << "s", "t", "m", "3", "2", "f", "0", "x", "0" >>

\* table key 'stm32f0x1'
DevF0x1 == << "s", "t", "m", "3", "2", "f", "0", "x", "1" >>

\* table key 'stm32f0x2'
DevF0x2 == << "s", "t", "m", "3", "2", "f", "0", "x", "2" >>

\* table key 'stm32f103'
DevF103 == << "s", "t", "m", "3", "2", "f", "1", "0", "3" >>

\* table key 'stm32wb55'
DevWb55 == << "s", "t", "m", "3", "2", "w", "b", "5", "5" >>

\* The records of the table's devices.
DtF0x0 ==
  [rm |-> << "R", "M", "0", "3", "6", "0" >>,
   rm_url |->
     << "s", "t", ".", "c", "o", "m", "/", "r", "m", "0", "3", "6", "0" >>,
   url |-> << "s", "t", ".", "c", "o", "m", "/", "f", "0", "x", "0" >>,
   members |-> << << "s", "t", "m", "3", "2", "f", "0", "3", "0" >>,
                 << "s", "t", "m", "3", "2", "f", "0", "7", "0" >> >>]

DtF0x1 ==
  [rm |-> << "R", "M", "0", "0", "9", "1" >>,
   rm_url |->
     << "s", "t", ".", "c", "o", "m", "/", "r", "m", "0", "0", "9", "1" >>,
   url |-> << "s", "t", ".", "c", "o", "m", "/", "f", "0", "x", "1" >>,
   members |-> << << "s", "t", "m", "3", "2", "f", "0", "3", "1" >>,
                 << "s", "t", "m", "3", "2", "f", "0", "5", "1" >> >>]

DtF0x2 ==
  [rm |-> << "R", "M", "0", "0", "9", "1" >>,
   rm_url |->
     << "s", "t", ".", "c", "o", "m", "/", "r", "m", "0", "0", "9", "1" >>,
   url |-> << "s", "t", ".", "c", "o", "m", "/", "f", "0", "x", "2" >>,
   members |-> << << "s", "t", "m", "3", "2", "f", "0", "4", "2" >>,
                 << "s", "t", "m", "3", "2", "f", "0", "7", "2" >> >>]

DtF103 ==
  [rm |-> << "R", "M", "0", "0", "0", "8" >>,
   rm_url |->
     << "s", "t", ".", "c", "o", "m", "/", "r", "m", "0", "0", "0", "8" >>,
   url |-> << "s", "t", ".", "c", "o", "m", "/", "f", "1", "0", "3" >>,
   members |-> << << "s", "t", "m", "3", "2", "f", "1", "0", "3" >> >>]

DtWb55 ==
  [rm |-> << "R", "M", "0", "4", "3", "4" >>,
   rm_url |->
     << "s", "t", ".", "c", "o", "m", "/", "r", "m", "0", "4", "3", "4" >>,
   url |-> << "s", "t", ".", "c", "o", "m", "/", "w", "b", "5", "5" >>,
   members |-> << << "s", "t", "m", "3", "2", "w", "b", "5", "5" >> >>]

\* A table whose families are keyed in lower case; stm32f0 lists its devices
\* out of sorted order.
TableA ==
  << [key |-> FamF0,
      val |-> << [key |-> DevF0x1, val |-> DtF0x1],
                 [key |-> DevF0x0, val |-> DtF0x0] >>],
     [key |-> FamF1, val |-> << [key |-> DevF103, val |-> DtF103] >>],
     [key |-> FamWb, val |-> << [key |-> DevWb55, val |-> DtWb55] >>] >>

\* A table that has a family keyed in upper case, lists for stm32f0 a device
\* other than the directory's, and has no key stm32f1.
TableB ==
  << [key |-> FamF0, val |-> << [key |-> DevF0x2, val |-> DtF0x2] >>],
     [key |-> FamUpperF0, val |-> << [key |-> DevF0x1, val |-> DtF0x1] >>] >>

\* What stm32_part_table.yaml may be: one of the two tables, or missing.
TableFiles ==
  { [exists |-> TRUE, content |-> TableA],
    [exists |-> TRUE, content |-> TableB],
    [exists |-> FALSE, content |-> << >>] }

(***************************************************************************)
(* The state of a run of main().                                           *)
(***************************************************************************)
VARIABLES
  entries,     \* the directory's entries, in the order the listing gives them
  tableFile,   \* stm32_part_table.yaml
  pc,          \* where main() is
  paths,       \* the result of glob.glob
  i,           \* the number of paths the collection loop has taken
  devices,     \* the dict devices: family -> list of devices
  table,       \* the loaded reference table
  printed,     \* the lines printed before the prompt
  response,    \* what the operator did at the prompt
  famIdx,      \* the position in devices of the family being processed
  rendered,    \* the four texts rendered for that family
  step,        \* the number of files written for that family
  dirs,        \* the directories the run created
  fs,          \* the files under the working directory
  log,         \* the writes the run completed, in order
  err,         \* the exception that ended the run
  exitStatus,  \* the exit status of the process
  run,         \* 1, or 2 in a second run on the same directory and table
  prev         \* what the first run left

vars ==
  << entries, tableFile, pc, paths, i, devices, table, printed, response,
     famIdx, rendered, step, dirs, fs, log, err, exitStatus, run, prev >>

NoErr == [kind |-> "none", where |-> "", at |-> << >>]

NoResponse == [kind |-> "none", text |-> << >>]

NoPrev ==
  [fs |-> {}, writes |-> {}, response |-> NoResponse, exitStatus |-> "running",
   reordered |-> FALSE]

\* What the operator can do while input() waits: submit a line (Enter, with or
\* without text before it), interrupt with ctrl-C, or close standard input.
Responses ==
  { [kind |-> "line", text |-> << >>],
    [kind |-> "line", text |-> << "n" >>],
    [kind |-> "KeyboardInterrupt", text |-> << >>],
    [kind |-> "EOFError", text |-> << >>] }

\* The state main() starts in, on every directory listing and table file.
Init ==
  /\ entries \in Listings
  /\ tableFile \in TableFiles
  /\ pc = "glob"
  /\ paths = << >>
  /\ i = 0
  /\ devices = << >>
  /\ table = << >>
  /\ printed = << >>
  /\ response = NoResponse
  /\ famIdx = 0
  /\ rendered = << >>
  /\ step = 0
  /\ dirs = {}
  /\ fs = {}
  /\ log = << >>
  /\ err = NoErr
  /\ exitStatus = "running"
  /\ run = 1
  /\ prev = NoPrev

\* An uncaught exception: the traceback is printed and the process exits with a
\* non-zero status.
Raise(kind, where, at) ==
  /\ pc' = "aborted"
  /\ err' = [kind |-> kind, where |-> where, at |-> at]
  /\ exitStatus' = "nonzero"

(***************************************************************************)
(* The collection pass.                                                    *)
(***************************************************************************)
\* glob.glob(os.path.join(sys.argv[1], "*.yaml"))
Glob ==
  /\ pc = "glob"
  /\ paths' = glob(ArgDir, entries)
  /\ pc' = "collect"
  /\ UNCHANGED << entries, tableFile, i, devices, table, printed, response,
                  famIdx, rendered, step, dirs, fs, log, err, exitStatus, run,
                  prev >>

\* The family and the device of one path.
FamilyOf(path) == Prefix(basename(path), FamilyLen)

DeviceOf(path) == lower(splitext0(basename(path)))

\* The loop body with the append under an else: a new family gets its key and
\* no device.
AddDeviceElse(d, family, device) ==
  IF family \notin Keys(d) THEN Put(d, family, << >>)
  ELSE Put(d, family, Append(Get(d, family), device))

\* One pass of the collection loop's body: the family gets a key with an empty
\* list if it has none, and the device is appended to the family's list.
AddDevice(d, family, device) ==
  LET withKey == IF family \notin Keys(d) THEN Put(d, family, << >>) ELSE d
  IN Put(withKey, family, Append(Get(withKey, family), device))

Collect ==
  /\ pc = "collect"
  /\ i < Len(paths)
  /\ devices' = AddDevice(devices, FamilyOf(paths[i + 1]), DeviceOf(paths[i + 1]))
  /\ i' = i + 1
  /\ UNCHANGED << entries, tableFile, pc, paths, table, printed, response,
                  famIdx, rendered, step, dirs, fs, log, err, exitStatus, run,
                  prev >>

\* read_device_table(): the table, or the exception open() raises.
ReadTable ==
  /\ pc = "collect"
  /\ i = Len(paths)
  /\ IF tableFile.exists
       THEN /\ table' = tableFile.content
            /\ pc' = "print"
            /\ UNCHANGED << err, exitStatus >>
       ELSE /\ Raise("FileNotFoundError", "read_device_table", << >>)
            /\ UNCHANGED table
  /\ UNCHANGED << entries, tableFile, paths, i, devices, printed, response,
                  famIdx, rendered, step, dirs, fs, log, run, prev >>

(***************************************************************************)
(* The prompt.                                                             *)
(***************************************************************************)
\* dirs = ", ".join(x.lower()+"/" for x in devices)
DirsLine(d) == join(CommaSpace, [k \in 1..Len(d) |-> lower(d[k].key) \o Slash])

\* The two print calls; input() then waits for the operator.
ShowPrompt ==
  /\ pc = "print"
  /\ printed' = DirsLine(devices)
  /\ pc' = "input"
  /\ UNCHANGED << entries, tableFile, paths, i, devices, table, response,
                  famIdx, rendered, step, dirs, fs, log, err, exitStatus, run,
                  prev >>

\* Where main() goes when there is no family left at position k.
AfterFamily(k) == IF k <= Len(devices) THEN "render" ELSE "done"

\* The prompt with the interrupt and the end of input swallowed: main() goes on
\* whatever the operator did.
AnswerSwallowed ==
  /\ pc = "input"
  /\ \E r \in Responses :
       /\ run = 2 => r = prev.response
       /\ response' = r
       /\ famIdx' = 1
       /\ pc' = AfterFamily(1)
       /\ exitStatus' = IF Len(devices) = 0 THEN "zero" ELSE exitStatus
       /\ UNCHANGED err
  /\ UNCHANGED << entries, tableFile, paths, i, devices, table, printed,
                  rendered, step, dirs, fs, log, run, prev >>

\* input() returns whatever line the operator submits, and main() drops it; an
\* interrupt or the end of standard input raises.  A second run is given the
\* first run's response.
Answer ==
  /\ pc = "input"
  /\ \E r \in Responses :
       /\ run = 2 => r = prev.response
       /\ response' = r
       /\ IF r.kind = "line"
            THEN /\ famIdx' = 1
                 /\ pc' = AfterFamily(1)
                 /\ exitStatus' = IF Len(devices) = 0 THEN "zero" ELSE exitStatus
                 /\ UNCHANGED err
            ELSE /\ Raise(r.kind, "input", << >>)
                 /\ UNCHANGED famIdx
  /\ UNCHANGED << entries, tableFile, paths, i, devices, table, printed,
                  rendered, step, dirs, fs, log, run, prev >>

(***************************************************************************)
(* The loop over the families.                                             *)
(***************************************************************************)
\* The four texts of a family, each a template with the arguments format()
\* puts into it; `rows` is what make_device_rows returned.
RenderFamily(family, devs, rows) ==
  LET crate == lower(family)
      ufamily == upper(family)
  IN << [tpl |-> "CARGO_TOML_TPL", family |-> ufamily, crate |-> crate,
         version |-> VERSION, features |-> make_features(devs),
         docs_features |-> Get(CRATE_DOC_FEATURES, crate)],
        [tpl |-> "README_TPL", family |-> ufamily, crate |-> crate,
         device |-> devs[1], version |-> VERSION,
         svd2rust_version |-> SVD2RUST_VERSION, devices |-> rows],
        [tpl |-> "SRC_LIB_RS_TPL", family |-> ufamily,
         mods |-> make_mods(devs), crate |-> crate,
         svd2rust_version |-> SVD2RUST_VERSION],
        [tpl |-> "BUILD_TPL", device_clauses |-> make_device_clauses(devs)] >>

\* The rendering with table.get(family, {}) in place of table[family]: a family
\* the table has no key for renders with no row.
RenderOutcomeGetDefault(family, devs, tbl) ==
  IF lower(family) \notin Keys(CRATE_DOC_FEATURES)
    THEN [failure |-> "CRATE_DOC_FEATURES", texts |-> << >>]
  ELSE IF devs = << >> THEN [failure |-> "devices", texts |-> << >>]
  ELSE [failure |-> "none",
        texts |-> RenderFamily(family, devs,
                               IF family \in Keys(tbl)
                                 THEN make_device_rows(tbl, family) ELSE << >>)]

\* The rendering of one family from its sorted devices: the lookup that raises,
\* in the order main() evaluates them (CRATE_DOC_FEATURES[crate],
\* devices[family][0], and table[family] in make_device_rows), or the four
\* texts when none does.
RenderOutcome(family, devs, tbl) ==
  IF lower(family) \notin Keys(CRATE_DOC_FEATURES)
    THEN [failure |-> "CRATE_DOC_FEATURES", texts |-> << >>]
  ELSE IF devs = << >> THEN [failure |-> "devices", texts |-> << >>]
  ELSE IF family \notin Keys(tbl) THEN [failure |-> "table", texts |-> << >>]
  ELSE [failure |-> "none",
        texts |-> RenderFamily(family, devs, make_device_rows(tbl, family))]

\* The failure caught per family: the error is reported and the loop goes on
\* to the next family.
RenderFailsSkipFamily(where, at) ==
  /\ err' = [kind |-> IF where = "devices" THEN "IndexError" ELSE "KeyError",
             where |-> where, at |-> at]
  /\ famIdx' = famIdx + 1
  /\ pc' = AfterFamily(famIdx + 1)
  /\ exitStatus' = IF famIdx + 1 > Len(devices) THEN "nonzero" ELSE exitStatus
  /\ UNCHANGED rendered

\* A lookup that fails while a family is rendered: the exception is not caught,
\* and it ends the run.  The key that was missing is kept with it.
RenderFails(where, at) ==
  /\ Raise(IF where = "devices" THEN "IndexError" ELSE "KeyError", where, at)
  /\ UNCHANGED << famIdx, rendered >>

\* The body of the loop up to the four rendered texts: the family's list is
\* sorted in place and the texts are rendered from it.
Render ==
  /\ pc = "render"
  /\ LET family == devices[famIdx].key
         devs == sorted(devices[famIdx].val)
         outcome == RenderOutcome(family, devs, table)
     IN /\ devices' = Put(devices, family, devs)
        /\ IF outcome.failure = "none"
             THEN /\ rendered' = outcome.texts
                  /\ pc' = "makedirs"
                  /\ UNCHANGED << famIdx, err, exitStatus >>
             ELSE RenderFails(outcome.failure,
                              IF outcome.failure = "CRATE_DOC_FEATURES"
                                THEN lower(family) ELSE family)
  /\ UNCHANGED << entries, tableFile, paths, i, table, printed, response,
                  step, dirs, fs, log, run, prev >>

\* The crate directory of the family being processed.
Crate == lower(devices[famIdx].key)

\* os.makedirs(os.path.join(crate, "src"), exist_ok=True)
MakeDirs ==
  /\ pc = "makedirs"
  /\ dirs' = dirs \cup {Crate, pathjoin(Crate, SrcDir)}
  /\ step' = 0
  /\ pc' = "write"
  /\ UNCHANGED << entries, tableFile, paths, i, devices, table, printed,
                  response, famIdx, rendered, fs, log, err, exitStatus, run,
                  prev >>

\* os.makedirs raises: nothing, or the crate directory alone, was created.
MakeDirsFails ==
  /\ pc = "makedirs"
  /\ run = 1
  /\ dirs' \in {dirs, dirs \cup {Crate}}
  /\ Raise("OSError", "makedirs", pathjoin(Crate, SrcDir))
  /\ UNCHANGED << entries, tableFile, paths, i, devices, table, printed,
                  response, famIdx, rendered, step, fs, log, run, prev >>

\* The name under the crate directory of the k-th file main() writes, and the
\* text written to it.
FileName(k) ==
  CASE k = 1 -> CargoTomlName
    [] k = 2 -> ReadmeName
    [] k = 3 -> pathjoin(SrcDir, LibRsName)
    [] k = 4 -> BuildRsName

FilePath(crate, k) == pathjoin(crate, FileName(k))

\* The file system with `data` at `path`, whole ("full") or cut short.
WriteTo(files, path, data, len) ==
  {f \in files : f.path # path} \cup {[path |-> path, data |-> data, len |-> len]}

\* with open(path, "w") as f: f.write(text), for the next file of the family.
\* After the fourth file the loop goes on to the next family, and main()
\* returns when there is none.
WriteFile ==
  /\ pc = "write"
  /\ LET k == step + 1
         path == FilePath(Crate, k)
     IN /\ fs' = WriteTo(fs, path, rendered[k], "full")
        /\ log' = Append(log, [idx |-> famIdx, family |-> devices[famIdx].key,
                               path |-> path, data |-> rendered[k]])
        /\ IF k < 4
             THEN /\ step' = k
                  /\ UNCHANGED << pc, famIdx, rendered, exitStatus >>
             ELSE /\ step' = 0
                  /\ rendered' = << >>
                  /\ famIdx' = famIdx + 1
                  /\ pc' = AfterFamily(famIdx + 1)
                  /\ exitStatus' =
                       IF famIdx + 1 > Len(devices) THEN "zero" ELSE exitStatus
  /\ UNCHANGED << entries, tableFile, paths, i, devices, table, printed,
                  response, dirs, err, run, prev >>

\* The failure handled with a rollback: the files of the family's crate
\* directory are removed before the exception goes on.
WriteFailsRollback ==
  /\ pc = "write"
  /\ run = 1
  /\ fs' = {f \in fs : \A k \in 1..4 : f.path # FilePath(Crate, k)}
  /\ Raise("OSError", "write", FilePath(Crate, step + 1))
  /\ UNCHANGED << entries, tableFile, paths, i, devices, table, printed,
                  response, famIdx, rendered, step, dirs, log, run, prev >>

\* The write raises: open() failed and the file is as it was, or open()
\* truncated the file and the write or the close failed, which leaves a part
\* of the text.
WriteFails ==
  /\ pc = "write"
  /\ run = 1
  /\ LET path == FilePath(Crate, step + 1)
     IN \E how \in {"open", "write"} :
          /\ fs' = IF how = "open" THEN fs
                   ELSE WriteTo(fs, path, rendered[step + 1], "partial")
          /\ Raise("OSError", how, path)
  /\ UNCHANGED << entries, tableFile, paths, i, devices, table, printed,
                  response, famIdx, rendered, step, dirs, log, run, prev >>

(***************************************************************************)
(* A second run.                                                           *)
(***************************************************************************)
\* The writes of a log, without their order.
WritesOf(l) ==
  {[family |-> l[k].family, path |-> l[k].path, data |-> l[k].data]
     : k \in 1..Len(l)}

\* The script is run again on the same directory and the same table, in a
\* fresh working directory, after a first run that the operator let proceed
\* with the Enter key and that met no file system error.  The listing may come
\* in another order; the operator answers as before and no file system call
\* fails.
Rerun ==
  /\ pc \in {"done", "aborted"}
  /\ run = 1
  /\ err.kind \in {"none", "KeyError"}
  /\ response = [kind |-> "line", text |-> << >>]
  /\ entries' \in Reorderings(entries)
  /\ prev' = [fs |-> fs, writes |-> WritesOf(log), response |-> response,
              exitStatus |-> exitStatus, reordered |-> entries' # entries]
  /\ run' = 2
  /\ pc' = "glob"
  /\ paths' = << >>
  /\ i' = 0
  /\ devices' = << >>
  /\ table' = << >>
  /\ printed' = << >>
  /\ response' = NoResponse
  /\ famIdx' = 0
  /\ rendered' = << >>
  /\ step' = 0
  /\ dirs' = {}
  /\ fs' = {}
  /\ log' = << >>
  /\ err' = NoErr
  /\ exitStatus' = "running"
  /\ UNCHANGED tableFile

Next ==
  \/ Glob
  \/ Collect
  \/ ReadTable
  \/ ShowPrompt
  \/ Answer
  \/ Render
  \/ MakeDirs
  \/ MakeDirsFails
  \/ WriteFile
  \/ WriteFails
  \/ Rerun

Spec == Init /\ [][Next]_vars

(***************************************************************************)
(* What the properties below read off a run.                               *)
(***************************************************************************)
\* s.find(sep) from position k on, counted from 1, and 0 when sep does not
\* occur; s.split(sep).
RECURSIVE Find(_, _, _)
Find(s, sep, k) ==
  IF k + Len(sep) - 1 > Len(s) THEN 0
  ELSE IF \A n \in 1..Len(sep) : s[k + n - 1] = sep[n] THEN k
  ELSE Find(s, sep, k + 1)

RECURSIVE split(_, _)
split(s, sep) ==
  LET k == Find(s, sep, 1)
  IN IF k = 0 THEN << s >>
     ELSE << SubSeq(s, 1, k - 1) >> \o split(From(s, k + Len(sep)), sep)

\* The strings of a finite set in ascending order, each once.
RECURSIVE Ascending(_)
Ascending(S) ==
  IF S = {} THEN << >>
  ELSE LET least == CHOOSE x \in S : \A y \in S \ {x} : StrLess(x, y)
       IN << least >> \o Ascending(S \ {least})

\* The entries of the directory that are description files, and the devices
\* the file names give a family: the lowercased stems of the files whose first
\* seven characters are the family.
DescriptionFiles ==
  {e \in Range(entries) : EndsWith(e, YamlExt) /\ ~StartsWith(e, Dot)}

CollectedDevices(family) ==
  {lower(SubSeq(e, 1, Len(e) - Len(YamlExt))) :
     e \in {x \in DescriptionFiles : Prefix(x, FamilyLen) = family}}

\* The families in the order main() processes them.
Family(k) == devices[k].key

\* The run has ended.
Ended == pc \in {"done", "aborted"}

\* Nothing was created or written.
NothingWritten == dirs = {} /\ fs = {} /\ log = << >>

\* The write the run completed last, while the run goes on.  Every write is the
\* last one in the state that follows it, so a property of the last write in
\* every reachable state is a property of every write.
Latest == log[Len(log)]

LatestIs(tpl) == log # << >> /\ pc # "aborted" /\ Latest.data.tpl = tpl

\* The file at a path holds, whole, the text the run wrote there last.
RECURSIVE LastWrite(_, _)
LastWrite(l, path) ==
  IF l[Len(l)].path = path THEN l[Len(l)].data
  ELSE LastWrite(SubSeq(l, 1, Len(l) - 1), path)

Holds(path) ==
  [path |-> path, data |-> LastWrite(log, path), len |-> "full"] \in fs

\* The writes of the log are those of the families at positions 1, 2, ... in
\* turn, each family's in the order Cargo.toml, README.md, src/lib.rs,
\* build.rs.
InFileOrder ==
  \A j \in 1..Len(log) :
    /\ log[j].idx = ((j - 1) \div 4) + 1
    /\ log[j].family = Family(log[j].idx)
    /\ log[j].path = FilePath(lower(log[j].family), ((j - 1) % 4) + 1)

(***************************************************************************)
(* C10.  Every family of the collected grouping has at least one device,   *)
(* during the collection pass and at every later point of the run, so that *)
(* devices[family][0], the readme's example device, never raises on an     *)
(* empty list.                                                             *)
(***************************************************************************)
C10_FamiliesHaveDevices ==
  /\ \A k \in 1..Len(devices) : Len(devices[k].val) >= 1
  /\ err.kind # "IndexError"

\* A family has been rendered with its first sorted device as the example.
C10_Witness ==
  /\ pc = "makedirs"
  /\ Len(devices[famIdx].val) >= 2
  /\ rendered[2].device = devices[famIdx].val[1]

(***************************************************************************)
(* C2.  No directory is created and no file is written before the operator *)
(* has confirmed, by submitting a line, at the prompt that lists the       *)
(* family directories; when the operator interrupts or closes the input    *)
(* instead, the run aborts and has written nothing.                        *)
(***************************************************************************)
C2_NothingBeforeConfirmation ==
  /\ ~NothingWritten => response.kind = "line" /\ printed = DirsLine(devices)
  /\ response.kind \in {"KeyboardInterrupt", "EOFError"} =>
       pc = "aborted" /\ exitStatus = "nonzero" /\ NothingWritten

\* The operator cancelled at a prompt that listed directories.
C2_Witness ==
  /\ response.kind = "KeyboardInterrupt"
  /\ pc = "aborted"
  /\ printed # << >>
  /\ NothingWritten

(***************************************************************************)
(* C8.  As claimed: when the directory holds no matching description file  *)
(* and the reference table loads, no family is computed, the prompt lists  *)
(* no directory, nothing is created or written, and the run completes      *)
(* normally with exit status zero.                                         *)
(***************************************************************************)
NoDescriptionFile == DescriptionFiles = {} /\ tableFile.exists

C8_Original ==
  NoDescriptionFile =>
    /\ devices = << >>
    /\ printed = << >>
    /\ NothingWritten
    /\ Ended => pc = "done" /\ exitStatus = "zero"

(***************************************************************************)
(* C8, amended.  When the directory holds no matching description file and *)
(* the reference table loads, no family is computed, the prompt lists no   *)
(* directory and nothing is created or written; the run completes normally *)
(* with exit status zero once the operator confirms at the prompt, and     *)
(* ends with an error and a non-zero status when the operator interrupts   *)
(* or closes the input there.                                              *)
(***************************************************************************)
C8_EmptyInput ==
  NoDescriptionFile =>
    /\ devices = << >>
    /\ printed = << >>
    /\ NothingWritten
    /\ response.kind = "line" => pc = "done" /\ exitStatus = "zero"
    /\ Ended =>
         IF response.kind = "line" THEN pc = "done" /\ exitStatus = "zero"
         ELSE pc = "aborted" /\ exitStatus = "nonzero" /\ err.kind = response.kind

\* A directory that holds only an entry the pattern does not match, and the
\* run completed.
C8_Witness ==
  /\ NoDescriptionFile
  /\ entries # << >>
  /\ pc = "done"
  /\ exitStatus = "zero"

(***************************************************************************)
(* C1.  As claimed: a run that ends with the lookup failure in             *)
(* CRATE_DOC_FEATURES has written no file of any family.                   *)
(***************************************************************************)
DocLookupFailed == err.kind = "KeyError" /\ err.where = "CRATE_DOC_FEATURES"

C1_Original == DocLookupFailed => NothingWritten

(***************************************************************************)
(* C1, amended.  The lookup is made when the family's turn comes: a run    *)
(* that ends with the lookup failure in CRATE_DOC_FEATURES has written no  *)
(* file of the family the lookup failed for nor of any family after it in  *)
(* the processing order, while the four files of every family processed    *)
(* before it have been written and remain.                                 *)
(***************************************************************************)
\* The position of the first family whose crate name is the missing key.
FailedAt ==
  CHOOSE k \in 1..Len(devices) :
    /\ lower(Family(k)) = err.at
    /\ \A j \in 1..(k - 1) : lower(Family(j)) # err.at

C1_LookupFailureStopsTheRun ==
  DocLookupFailed =>
    /\ pc = "aborted"
    /\ exitStatus = "nonzero"
    /\ Len(log) = 4 * (FailedAt - 1)
    /\ InFileOrder
    /\ \A j \in 1..Len(log) : log[j].idx < FailedAt /\ Holds(log[j].path)

\* The lookup failed after the files of an earlier family were written.
C1_Witness == DocLookupFailed /\ log # << >>

(***************************************************************************)
(* C7.  As claimed: a family whose files are written is a key of the       *)
(* reference table, and every device collected for it is a key of the      *)
(* family's sub-mapping; otherwise row generation failed and no file of    *)
(* the family was written.                                                 *)
(***************************************************************************)
C7_Original ==
  \A j \in 1..Len(log) :
    /\ log[j].family \in Keys(table)
    /\ \A d \in Range(devices[log[j].idx].val) :
         d \in Keys(Get(table, log[j].family))

(***************************************************************************)
(* C7, amended.  Row generation looks up the family only.  Whenever the    *)
(* family processed is not a key of the reference table the run aborts     *)
(* with a lookup error at that family and writes no file for it: the error *)
(* is the one of table[family], unless the family's crate name is not a    *)
(* key of CRATE_DOC_FEATURES either, whose lookup comes first.  Row        *)
(* generation fails for no other family: a collected device that is not a  *)
(* key of the family's sub-mapping does not make it fail.                  *)
(***************************************************************************)
C7_UnknownFamilyStopsTheRun ==
  /\ \A j \in 1..Len(log) : log[j].family \in Keys(table)
  /\ \A k \in 1..Len(devices) :
       (famIdx >= 1 /\ Family(k) \notin Keys(table)) =>
         /\ famIdx <= k
         /\ famIdx = k =>
              /\ pc \in {"render", "aborted"}
              /\ pc = "aborted" =>
                   /\ err.kind = "KeyError"
                   /\ exitStatus = "nonzero"
                   /\ IF lower(Family(k)) \in Keys(CRATE_DOC_FEATURES)
                        THEN err.where = "table" /\ err.at = Family(k)
                        ELSE err.where = "CRATE_DOC_FEATURES"
  /\ err.where = "table" =>
       /\ err.at = Family(famIdx)
       /\ err.at \notin Keys(table)

\* Row generation failed for a family after the files of another were written.
C7_Witness == pc = "aborted" /\ err.where = "table" /\ log # << >>

(***************************************************************************)
(* The rows of a readme's device table.                                    *)
(***************************************************************************)
RowsOf(text) == IF text = << >> THEN << >> ELSE split(text, << NL >>)

\* The three cells of a row: the text between the opening and the closing bar,
\* split at the bars.
RowFields(row) ==
  split(SubSeq(row, Len(RowOpen) + 1, Len(row) - Len(RowClose)), RowSep)

\* The row is the one of `device`, with the members and the links of dt.
RowIsOf(row, device, dt) ==
  LET fields == RowFields(row)
  IN /\ StartsWith(row, RowOpen)
     /\ EndsWith(row, RowClose)
     /\ Len(fields) = 3
     /\ fields[1] = device
     /\ split(fields[2], CommaSpace) = dt.members
     /\ fields[3] =
          LinkOpen \o dt.rm \o LinkMid \o dt.rm_url \o LinkVendor \o dt.url
            \o LinkClose

RowsAscending(rows) == \A r \in 1..(Len(rows) - 1) : StrLess(rows[r], rows[r + 1])

\* Each device of `wanted` has exactly one row, built from its record in
\* `items`, and there is no other row.
OneRowEach(rows, wanted, items) ==
  /\ Len(rows) = Cardinality(wanted)
  /\ \A d \in wanted :
       /\ d \in Keys(items)
       /\ Cardinality({r \in 1..Len(rows) : RowIsOf(rows[r], d, Get(items, d))}) = 1

(***************************************************************************)
(* C5.  As claimed: the device table of a family's readme has exactly one  *)
(* row for each device collected for the family from the input file names  *)
(* and no other row, each row built from the device's members and links in *)
(* the reference table, the rows sorted by their text.                     *)
(***************************************************************************)
C5_Original ==
  LatestIs("README_TPL") =>
    LET rows == RowsOf(Latest.data.devices)
    IN /\ OneRowEach(rows, CollectedDevices(Latest.family),
                     Get(table, Latest.family))
       /\ RowsAscending(rows)

(***************************************************************************)
(* C5, amended.  The device table of a family's readme has exactly one row *)
(* for each device that is a key of the family's sub-mapping in the        *)
(* reference table, whether or not a file of the directory names it, and   *)
(* no other row; each row is built from that device's members and links in *)
(* the table, and the rows are sorted by their text.                       *)
(***************************************************************************)
C5_RowsAreTheTableDevices ==
  LatestIs("README_TPL") =>
    LET rows == RowsOf(Latest.data.devices)
        items == Get(table, Latest.family)
    IN /\ OneRowEach(rows, Keys(items), items)
       /\ RowsAscending(rows)

\* A readme was written for a family the table lists two devices for, out of
\* order, one of which no file of the directory names.
C5_Witness ==
  /\ LatestIs("README_TPL")
  /\ Len(Get(table, Latest.family)) = 2
  /\ Keys(Get(table, Latest.family)) # CollectedDevices(Latest.family)
  /\ Holds(Latest.path)

(***************************************************************************)
(* C3.  The per-device feature entries of a family's manifest, one line    *)
(* '<device> = []' each, are the sorted, de-duplicated set of the          *)
(* lowercased device identifiers collected from the family's input file    *)
(* names: no identifier twice, also when two file names of the family      *)
(* differ only in the letter case of their stem.                           *)
(***************************************************************************)
\* The devices of the feature lines: each line without its ' = []'.
FeatureEntries(text) ==
  LET lines == split(text, << NL >>)
  IN [k \in 1..Len(lines) |->
        SubSeq(lines[k], 1, Len(lines[k]) - Len(FeatureTail))]

C3_FeaturesAreTheDeviceSet ==
  LatestIs("CARGO_TOML_TPL") =>
    /\ \A l \in Range(split(Latest.data.features, << NL >>)) :
         EndsWith(l, FeatureTail)
    /\ FeatureEntries(Latest.data.features) =
         Ascending(CollectedDevices(Latest.family))

(***************************************************************************)
(* C6.  The conditional chain of a family's build script has exactly one   *)
(* branch per collected device, in sorted device order, each testing that  *)
(* device's feature flag and selecting that device's linker-description    *)
(* path, followed by one fallback branch, which is taken only when none of *)
(* the device feature flags is active.                                     *)
(***************************************************************************)
Quote == << "\"" >>

\* The branches of a chain: the text before the closing fallback, split at the
\* separators.
BranchesOf(text) ==
  split(SubSeq(text, 1, Len(text) - Len(Fallback)), ElseSep)

\* The flag a branch tests and the path it selects: its two quoted strings.
FlagOf(branch) == split(branch, Quote)[2]

PathOf(branch) == split(branch, Quote)[4]

\* The branch of a chain that runs when the flags of `active` are set: the
\* first whose flag is set, and 0, the fallback, when none is.
BranchTaken(branches, active) ==
  IF \E k \in 1..Len(branches) : FlagOf(branches[k]) \in active
    THEN CHOOSE k \in 1..Len(branches) :
           /\ FlagOf(branches[k]) \in active
           /\ \A j \in 1..(k - 1) : FlagOf(branches[j]) \notin active
    ELSE 0

C6_OneBranchPerDevice ==
  LatestIs("BUILD_TPL") =>
    LET text == Latest.data.device_clauses
        branches == BranchesOf(text)
        devs == Ascending(CollectedDevices(Latest.family))
        flags == {FlagHead \o upper(devs[k]) : k \in 1..Len(devs)}
    IN /\ EndsWith(text, Fallback)
       /\ Len(branches) = Len(devs)
       /\ \A k \in 1..Len(devs) :
            /\ branches[k] =
                 ClauseHead \o upper(devs[k]) \o ClauseMid \o devs[k] \o ClauseTail
            /\ FlagOf(branches[k]) = FlagHead \o upper(devs[k])
            /\ PathOf(branches[k]) = PathHead \o devs[k] \o PathTail
       /\ \A active \in SUBSET flags :
            BranchTaken(branches, active) = 0 <=> active = {}

(***************************************************************************)
(* C9.  As claimed: the families are processed one after another, each     *)
(* family's files written in the order manifest, readme, library entry     *)
(* point, build script; when a directory creation or a write fails the run *)
(* aborts at once, every file written before the failure remains on disk   *)
(* with its new content, and no file is written after it.                  *)
(***************************************************************************)
FailedOnDisk == pc = "aborted" /\ err.kind = "OSError"

C9_Original ==
  /\ InFileOrder
  /\ FailedOnDisk =>
       /\ exitStatus = "nonzero"
       /\ Len(log) = 4 * (famIdx - 1) + step
       /\ \A j \in 1..Len(log) : Holds(log[j].path)

(***************************************************************************)
(* C9, amended.  The families are processed one after another, each        *)
(* family's files written in the order manifest, readme, library entry     *)
(* point, build script; when a directory creation or a write fails the run *)
(* aborts at once and no file is written after the failure.  Every file    *)
(* written before the failure remains on disk with its new content, except *)
(* a file at the very path whose write failed: open() may already have     *)
(* truncated it, which loses what an earlier family whose key maps to the  *)
(* same lowercased directory wrote there.                                  *)
(***************************************************************************)
C9_FailureKeepsEarlierFiles ==
  /\ InFileOrder
  /\ FailedOnDisk =>
       /\ exitStatus = "nonzero"
       /\ Len(log) = 4 * (famIdx - 1) + step
       /\ \A j \in 1..Len(log) :
            (log[j].path # err.at \/ err.where = "open") => Holds(log[j].path)
       /\ \A j \in 1..Len(log) :
            ~Holds(log[j].path) => log[j].idx < famIdx

C9_WritesStopAtFailure ==
  /\ []C9_FailureKeepsEarlierFiles
  /\ [][pc = "aborted" => (run' = 2 \/ UNCHANGED << fs, log, dirs >>)]_vars

\* A write failed in the middle of a family, after an earlier family's files
\* were written.
C9_Witness ==
  /\ FailedOnDisk
  /\ famIdx >= 2
  /\ step >= 1
  /\ \A j \in 1..Len(log) : Holds(log[j].path)

(***************************************************************************)
(* C4.  As claimed: two runs on the same input file names and the same     *)
(* reference table leave the same contents in every output file, whatever  *)
(* order the directory listing comes in in each run.                       *)
(***************************************************************************)
SecondRunEnded == run = 2 /\ Ended

C4_Original == SecondRunEnded => fs = prev.fs

(***************************************************************************)
(* C4, amended.  Whatever order the directory listing comes in in each of  *)
(* two runs on the same input file names and the same reference table, the *)
(* text written for a family key to each of its files is the same in both  *)
(* runs.  The runs leave the same contents in every output file when every *)
(* family renders, so that the runs complete, and no two family keys map   *)
(* to the same lowercased output directory; otherwise which files exist    *)
(* and what they hold depends on the order: a lookup error stops a run at  *)
(* the family it meets it for, and of two families with one directory the  *)
(* one processed last overwrites the other's files.                        *)
(***************************************************************************)
SharedDirectory ==
  \E j, k \in 1..Len(devices) : j # k /\ lower(Family(j)) = lower(Family(k))

C4_SameTextPerFamily ==
  SecondRunEnded =>
    /\ \A w \in WritesOf(log) :
         \A v \in prev.writes :
           (w.family = v.family /\ w.path = v.path) => w.data = v.data
    /\ (prev.exitStatus = "zero" /\ ~SharedDirectory) =>
         pc = "done" /\ exitStatus = "zero" /\ fs = prev.fs

\* A second run, on another listing order, of two families of which one has
\* two devices, completed with the files of the first.
C4_Witness ==
  /\ SecondRunEnded
  /\ prev.reordered
  /\ pc = "done"
  /\ Len(devices) = 2
  /\ \E k \in 1..2 : Len(devices[k].val) = 2 /\ devices[k].val[1] # devices[k].val[2]
  /\ ~SharedDirectory
  /\ fs = prev.fs
  /\ Cardinality(fs) = 8

====
